---- MODULE Spec2Model ----
(***************************************************************************)
(* Carbon Footprint Calculator (src/app.py): the entry stores (local       *)
(* SQLite table daily_emissions, remote Supabase table daily_emissions),   *)
(* the goal table user_goals, the session's user_id, and the page          *)
(* handlers that write and read them.                                      *)
(*                                                                         *)
(* Quantities are integers.  Emissions and targets are in grams of CO2:    *)
(* every factor of the source (kg CO2 per unit) is multiplied by 1000.     *)
(* Dates are day numbers, day 0 being a Monday, so that                    *)
(* datetime.date.weekday() is d % 7.                                       *)
(***************************************************************************)
EXTENDS Integers, Sequences, FiniteSets, TLC

VARIABLES
    supabase,    \* TRUE iff the Supabase client was created (app.py:47-52)
    user_id,     \* st.session_state['user_id']: None or the guest identifier
    today,       \* datetime.date.today()
    local,       \* rows of the SQLite table daily_emissions, in rowid order
    remote,      \* rows of the Supabase table daily_emissions
    user_goals,  \* rows of the SQLite table user_goals, in rowid order
    saves,       \* history: the record of every save reported as a success
                 \* (app.py:206, 240), with what insert_supabase returned
    shown        \* what the last handler run displayed

vars == <<supabase, user_id, today, local, remote, user_goals, saves, shown>>

\* Python None, SQL NULL and the NaN pandas reads for an empty text cell.
None == "None"

-----------------------------------------------------------------------------
(* Bounds of the model *)

\* Successful saves (manual saves and counted CSV rows) in one behaviour.
MaxSaves == 2
\* Rows of the table user_goals.
MaxGoalRows == 2
\* Rows of an uploaded CSV file.
MaxCsvRows == 2

-----------------------------------------------------------------------------
(* CONFIG, app.py:18-26 *)

EMISSION_FACTORS ==
    ("Car (Petrol)" :> 192) @@ ("Car (Diesel)" :> 171) @@ ("Motorbike" :> 103)
        @@ ("Matatu/Bus" :> 105) @@ ("Bicycle/Walking" :> 0)

ELECTRICITY_FACTOR == 180

LPG_FACTOR == 3000

-----------------------------------------------------------------------------
(* HELPERS, app.py:94-138 *)

\* compute_emissions with l_e left out of the total.
compute_emissions_no_lpg(distance_km, transport_mode, electricity_kwh, lpg_kg) ==
    LET tf == IF transport_mode \in DOMAIN EMISSION_FACTORS
              THEN EMISSION_FACTORS[transport_mode] ELSE 0
        t_e == distance_km * tf
        e_e == electricity_kwh * ELECTRICITY_FACTOR
        l_e == lpg_kg * LPG_FACTOR
    IN  [transport_emission |-> t_e, electricity_emission |-> e_e,
         lpg_emission |-> l_e, total_emission |-> t_e + e_e]

compute_emissions(distance_km, transport_mode, electricity_kwh, lpg_kg) ==
    LET tf == IF transport_mode \in DOMAIN EMISSION_FACTORS
              THEN EMISSION_FACTORS[transport_mode] ELSE 0
        t_e == distance_km * tf
        e_e == electricity_kwh * ELECTRICITY_FACTOR
        l_e == lpg_kg * LPG_FACTOR
        total == t_e + e_e + l_e
    IN  [transport_emission |-> t_e, electricity_emission |-> e_e,
         lpg_emission |-> l_e, total_emission |-> total]

\* The record dictionary built at app.py:190-203 and app.py:224-237.
MakeRecord(uid, alias, date, transport_mode, distance, electricity, lpg, notes) ==
    LET em == compute_emissions(distance, transport_mode, electricity, lpg)
    IN  [user_id |-> uid, alias |-> alias, date |-> date,
         transport_mode |-> transport_mode, distance |-> distance,
         electricity |-> electricity, lpg |-> lpg,
         transport_emission |-> em.transport_emission,
         electricity_emission |-> em.electricity_emission,
         lpg_emission |-> em.lpg_emission,
         total_emission |-> em.total_emission, notes |-> notes]

insert_local(table, record) == Append(table, record)

\* The value insert_supabase returns: False without a client, and otherwise
\* True unless the request raised (ok is the outcome of the request).
insert_supabase(ok) == supabase /\ ok

RECURSIVE SortByDate(_)
SortByDate(s) ==
    IF s = <<>> THEN <<>>
    ELSE LET t == SortByDate(SubSeq(s, 1, Len(s) - 1))
             e == s[Len(s)]
             k == Cardinality({i \in 1..Len(t) : t[i].date <= e.date})
         IN  SubSeq(t, 1, k) \o <<e>> \o SubSeq(t, k + 1, Len(t))

\* "if user_id:" is false for None; ORDER BY date ASC keeps rowid order
\* among rows of one date.
fetch_all_local_for_user(uid) ==
    LET Mine(e) == e.user_id = uid
    IN  IF uid # None THEN SortByDate(SelectSeq(local, Mine))
        ELSE SortByDate(local)

RECURSIVE SumTotal(_)
SumTotal(s) ==
    IF s = <<>> THEN 0 ELSE Head(s).total_emission + SumTotal(Tail(s))

-----------------------------------------------------------------------------
(* AUTH, app.py:141-168 *)

\* f"guest-{os.getpid()}" of the running server process.
GuestId == "guest-1"

ContinueAsGuest ==
    /\ supabase
    /\ user_id = None
    /\ user_id' = GuestId
    /\ shown' = [page |-> "Account"]
    /\ UNCHANGED <<supabase, today, local, remote, user_goals, saves>>

SignOut ==
    /\ supabase
    /\ user_id # None
    /\ user_id' = None
    /\ shown' = [page |-> "Account"]
    /\ UNCHANGED <<supabase, today, local, remote, user_goals, saves>>

-----------------------------------------------------------------------------
(* ENTER DATA, app.py:175-243 *)

\* SaveRecord without the fallback to insert_local.
SaveRecordLossy(db, record, ok) ==
    IF ~insert_supabase(ok)
    THEN [db EXCEPT !.saves = Append(@, [record |-> record, remote_ok |-> FALSE])]
    ELSE [db EXCEPT !.remote = Append(@, record),
                    !.saves = Append(@, [record |-> record, remote_ok |-> TRUE])]

\* The stores a handler run writes, threaded through its statements.
SaveRecord(db, record, ok) ==
    IF ~insert_supabase(ok)
    THEN [db EXCEPT !.local = insert_local(@, record),
                    !.saves = Append(@, [record |-> record, remote_ok |-> FALSE])]
    ELSE [db EXCEPT !.remote = Append(@, record),
                    !.saves = Append(@, [record |-> record, remote_ok |-> TRUE])]

\* Text of the numeric cells of a CSV file and the value float() gives it;
\* float() raises ValueError on any other text.
FloatText == ("0" :> 0) @@ ("5" :> 5) @@ ("10" :> 10)

float_raises(cell) == cell \notin DOMAIN FloatText

float(cell) == FloatText[cell]

\* The dates the model enters in the form: the first day of the leaderboard
\* window and the day before it, the first day of the goal window and the day
\* before it, today and tomorrow.
LeaderboardDates == {today - 8, today - 7, today + 1}

GoalDates == {today - (today % 7) - 1, today - (today % 7), today, today + 1}

InputDates == LeaderboardDates \cup GoalDates

\* pd.to_datetime(cell).date(): the date a cell's text denotes; it raises on
\* text that is no date.
to_datetime_raises(cell) == \A d \in InputDates : ToString(d) # cell

to_datetime(cell) == CHOOSE d \in InputDates : ToString(d) = cell

required == {"date", "distance", "transport_mode", "electricity", "lpg"}

\* The try block of app.py:221-240 raises before anything is inserted.
RowRaises(row) ==
    \/ to_datetime_raises(row.date)
    \/ float_raises(row.distance)
    \/ float_raises(row.electricity)
    \/ float_raises(row.lpg)

RowRecord(columns, row, alias) ==
    MakeRecord(user_id,
               IF "alias" \in columns THEN row.alias ELSE alias,
               to_datetime(row.date), row.transport_mode, float(row.distance),
               float(row.electricity), float(row.lpg),
               IF "notes" \in columns THEN row.notes ELSE "")

\* ImportRows leaving the loop at the first row that raises.
RECURSIVE ImportRowsAbort(_, _, _, _, _)
ImportRowsAbort(db, csv, alias, oks, i) ==
    IF i > Len(csv.rows) THEN db
    ELSE IF RowRaises(csv.rows[i])
         THEN [db EXCEPT !.failed = Append(@, i)]
         ELSE ImportRowsAbort(
                  [SaveRecord(db, RowRecord(csv.columns, csv.rows[i], alias), oks[i])
                      EXCEPT !.count = @ + 1],
                  csv, alias, oks, i + 1)

\* for _, row in df_csv.iterrows(): ... (app.py:220-242), from row i on.
RECURSIVE ImportRows(_, _, _, _, _)
ImportRows(db, csv, alias, oks, i) ==
    IF i > Len(csv.rows) THEN db
    ELSE IF RowRaises(csv.rows[i])
         THEN ImportRows([db EXCEPT !.failed = Append(@, i)], csv, alias, oks, i + 1)
         ELSE ImportRows(
                  [SaveRecord(db, RowRecord(csv.columns, csv.rows[i], alias), oks[i])
                      EXCEPT !.count = @ + 1],
                  csv, alias, oks, i + 1)

\* One run of page_enter_data.  clicked: "Save entry" was pressed, with the
\* form holding alias, date and activity <<mode, distance, electricity, lpg>>
\* and ok the outcome of the remote request; uploaded: <<>> or <<csv>>, the
\* content of the file uploader, with oks the outcomes of the remote requests
\* of its rows.
page_enter_data(clicked, alias, date, activity, ok, uploaded, oks) ==
    LET db0 == [local |-> local, remote |-> remote, saves |-> saves,
                count |-> 0, failed |-> <<>>]
        record == MakeRecord(user_id, alias, date, activity[1], activity[2],
                             activity[3], activity[4], "")
        db1 == IF clicked THEN SaveRecord(db0, record, ok) ELSE db0
        missing == IF uploaded = <<>> THEN {}
                   ELSE {c \in required : c \notin uploaded[1].columns}
        db2 == IF uploaded = <<>> \/ missing # {} THEN db1
               ELSE ImportRows(db1, uploaded[1], alias, oks, 1)
    IN  /\ Len(saves) < MaxSaves
        /\ Len(db2.saves) <= MaxSaves
        /\ local' = db2.local
        /\ remote' = db2.remote
        /\ saves' = db2.saves
        /\ shown' = [page |-> "Enter Data",
                     saved |-> IF clicked THEN <<record.total_emission>> ELSE <<>>,
                     uploaded |-> uploaded,
                     alias |-> alias,
                     csv |-> IF uploaded = <<>> THEN "none"
                             ELSE IF missing # {} THEN "missing" ELSE "imported",
                     count |-> db2.count,
                     failed |-> db2.failed]
        /\ UNCHANGED <<supabase, user_id, today, user_goals>>

\* Inputs of the model.
AliasInputs == {"", "amina"}

Activities == {<<"Car (Petrol)", 50, 5, 1>>}

GoodRow(d, alias) ==
    [date |-> ToString(d), distance |-> "10", transport_mode |-> "Car (Petrol)",
     electricity |-> "0", lpg |-> "0", alias |-> alias, notes |-> ""]

\* Row kinds: a good row with an empty alias cell, a row of an unknown
\* transport mode, a row whose distance is no number.
CsvRows ==
    {GoodRow(today, None),
     [GoodRow(today, "amina") EXCEPT !.transport_mode = "Tuk-tuk", !.lpg = "5"],
     [GoodRow(today, "amina") EXCEPT !.distance = "ten"]}

AllColumns == required \cup {"alias", "notes"}

RowSeqs(rows) == UNION {[1..n -> rows] : n \in 0..MaxCsvRows}

\* Files with every column and any rows of the kinds above; a file whose
\* first row has no date; a file without the optional columns; a file
\* without the lpg column.
CsvFiles ==
    {[columns |-> AllColumns, rows |-> r] : r \in RowSeqs(CsvRows)}
        \cup {[columns |-> AllColumns,
               rows |-> <<[GoodRow(today, "amina") EXCEPT !.date = "someday"],
                          GoodRow(today + 1, "amina")>>],
              [columns |-> required, rows |-> <<GoodRow(today, None)>>],
              [columns |-> required \ {"lpg"}, rows |-> <<GoodRow(today, None)>>]}

\* The outcomes of the remote inserts of an import, by row: no request is
\* made without a client, nor for a row that raises before the insert.
Outcomes(csv) ==
    {oks \in [1..Len(csv.rows) -> BOOLEAN] :
        \A i \in 1..Len(csv.rows) :
            oks[i] => supabase /\ ~RowRaises(csv.rows[i])}

RemoteOutcomes == IF supabase THEN BOOLEAN ELSE {FALSE}

\* The saves a run makes of the rows of csv and of n manual saves stay within
\* MaxSaves.
Fits(csv, n) ==
    LET Passes(i) == ~RowRaises(csv.rows[i])
        passing == IF required \subseteq csv.columns
                   THEN Cardinality({i \in 1..Len(csv.rows) : Passes(i)}) ELSE 0
    IN  Len(saves) + n + passing <= MaxSaves

SaveEntryWith(aliases, dates) ==
    /\ Len(saves) < MaxSaves
    /\ \E alias \in aliases, date \in dates, activity \in Activities,
       ok \in RemoteOutcomes :
           page_enter_data(TRUE, alias, date, activity, ok, <<>>, <<>>)

SaveEntry == SaveEntryWith(AliasInputs, InputDates)

\* The alias box matters to an import only when the file has no alias column.
ImportCsv ==
    /\ Len(saves) < MaxSaves
    /\ \E csv \in {f \in CsvFiles : Fits(f, 0)} :
           \E alias \in (IF "alias" \in csv.columns THEN {""} ELSE AliasInputs),
              oks \in Outcomes(csv) :
               page_enter_data(FALSE, alias, today, <<"Car (Petrol)", 0, 0, 0>>,
                               FALSE, <<csv>>, oks)

\* "Save entry" pressed while the uploader still holds a file: the run saves
\* the form and imports the file.
SaveEntryWithUpload ==
    /\ Len(saves) < MaxSaves
    /\ \E csv \in {f \in CsvFiles : Fits(f, 1)}, ok \in RemoteOutcomes :
           \E oks \in Outcomes(csv) :
               page_enter_data(TRUE, "amina", today, <<"Car (Petrol)", 50, 5, 1>>,
                               ok, <<csv>>, oks)

-----------------------------------------------------------------------------
(* GOALS & ALERTS, app.py:284-314 *)

\* value=current or 20.0 (app.py:293), in grams.
DEFAULT_TARGET == 20000

\* c.fetchone() of the SELECT at app.py:290: <<>> or the first row's value.
StoredTarget(uid) ==
    LET Mine(g) == g.user_id = uid
        rows == SelectSeq(user_goals, Mine)
    IN  IF rows = <<>> THEN <<>> ELSE <<rows[1].weekly_target>>

\* One run of page_goals_and_alerts.  typed: <<>> when the number input is
\* left at its default, <<t>> when the user entered t; clicked: "Save target"
\* was pressed.
page_goals_and_alerts(typed, clicked) ==
    LET current == IF user_id # None THEN StoredTarget(user_id) ELSE <<>>
        default == IF current = <<>> \/ current[1] = 0
                   THEN DEFAULT_TARGET ELSE current[1]
        target == IF typed = <<>> THEN default ELSE typed[1]
        goals == IF ~clicked THEN user_goals
                 ELSE IF current = <<>>
                      THEN Append(user_goals,
                                  [user_id |-> user_id, weekly_target |-> target])
                      ELSE [i \in 1..Len(user_goals) |->
                               IF user_goals[i].user_id = user_id
                               THEN [user_goals[i] EXCEPT !.weekly_target = target]
                               ELSE user_goals[i]]
        start_week == today - (today % 7)
        df == fetch_all_local_for_user(user_id)
        InWeek(e) == e.date >= start_week /\ e.date <= today
        weekly_total == SumTotal(SelectSeq(df, InWeek))
    IN  /\ Len(goals) <= MaxGoalRows
        /\ user_goals' = goals
        /\ shown' = [page |-> "Goals & Alerts",
                     target |-> target,
                     saved |-> clicked,
                     weekly |-> IF df = <<>> THEN <<>> ELSE <<weekly_total>>,
                     status |-> IF df = <<>> THEN "none"
                                ELSE IF weekly_total > target THEN "EXCEEDED"
                                ELSE "WITHIN_TARGET"]
        /\ UNCHANGED <<supabase, user_id, today, local, remote, saves>>

TargetInputs == {<<0>>, <<13500>>}

\* The page opened in a fresh run: the number input shows its default.
ViewGoals == page_goals_and_alerts(<<>>, FALSE)

SaveTarget == \E typed \in TargetInputs : page_goals_and_alerts(typed, TRUE)

-----------------------------------------------------------------------------
(* LEADERBOARD, app.py:317-331 *)

\* agg.head(10)
LEADERBOARD_ROWS == 10

\* Every alias of the model, in the order of Python's str comparison, which
\* is the order groupby('alias') gives its groups.
AliasOrder ==
    <<"", "amina", "u01", "u02", "u03", "u04", "u05", "u06", "u07", "u08",
      "u09", "u10">>

\* week.groupby('alias').agg({'total_emission':'sum'}).reset_index(): one
\* row per alias of week, in key order; groupby drops the rows whose key is
\* null (dropna=True).
groupby_alias_sum(week) ==
    LET Present(a) == \E i \in 1..Len(week) : week[i].alias = a
        Row(a) == LET Of(e) == e.alias = a
                  IN  [alias |-> a, total_emission |-> SumTotal(SelectSeq(week, Of))]
        keys == SelectSeq(AliasOrder, Present)
    IN  [i \in 1..Len(keys) |-> Row(keys[i])]

\* agg['alias'].fillna('Anonymous')
fillna(agg) ==
    [i \in 1..Len(agg) |->
        IF agg[i].alias = None THEN [agg[i] EXCEPT !.alias = "Anonymous"] ELSE agg[i]]

\* sort_values with ascending=False.
RECURSIVE sort_values_descending(_, _)
sort_values_descending(agg, tie) ==
    IF agg = <<>> THEN <<>>
    ELSE LET t == sort_values_descending(SubSeq(agg, 1, Len(agg) - 1), tie)
             e == agg[Len(agg)]
             k == Cardinality({i \in 1..Len(t) :
                      \/ t[i].total_emission > e.total_emission
                      \/ tie = "keep" /\ t[i].total_emission = e.total_emission})
         IN  SubSeq(t, 1, k) \o <<e>> \o SubSeq(t, k + 1, Len(t))

\* agg.sort_values('total_emission'): ascending; the default sort is not
\* stable, so rows of equal total come in an order the caller cannot choose
\* (tie: "keep" leaves them in key order, "swap" reverses them).
RECURSIVE sort_values(_, _)
sort_values(agg, tie) ==
    IF agg = <<>> THEN <<>>
    ELSE LET t == sort_values(SubSeq(agg, 1, Len(agg) - 1), tie)
             e == agg[Len(agg)]
             k == Cardinality({i \in 1..Len(t) :
                      \/ t[i].total_emission < e.total_emission
                      \/ tie = "keep" /\ t[i].total_emission = e.total_emission})
         IN  SubSeq(t, 1, k) \o <<e>> \o SubSeq(t, k + 1, Len(t))

head(agg, n) == SubSeq(agg, 1, IF Len(agg) < n THEN Len(agg) ELSE n)

page_leaderboard(tie) ==
    LET df_all == fetch_all_local_for_user(None)
        start_week == today - 7
        InWindow(e) == e.date >= start_week
        week == SelectSeq(df_all, InWindow)
        agg == sort_values(fillna(groupby_alias_sum(week)), tie)
    IN  /\ shown' = IF df_all = <<>>
                    THEN [page |-> "Leaderboard", empty |-> TRUE]
                    ELSE [page |-> "Leaderboard", empty |-> FALSE,
                          week |-> week, agg |-> agg,
                          table |-> head(agg, LEADERBOARD_ROWS)]
        /\ UNCHANGED <<supabase, user_id, today, local, remote, user_goals, saves>>

ViewLeaderboard == \E tie \in {"keep", "swap"} : page_leaderboard(tie)

-----------------------------------------------------------------------------
(* The database file emissions.db outlives the process (app.py:55-74): the *)
(* run may start on the rows an earlier local-only run left.               *)

Crowd ==
    [i \in 1..10 |->
        MakeRecord(None, AliasOrder[i + 2], 7, "Bicycle/Walking", 0, 0,
                   IF i = 10 THEN 9 ELSE i, "")]

-----------------------------------------------------------------------------
Init ==
    /\ supabase \in BOOLEAN
    /\ user_id = None
    /\ today = 13
    /\ local \in (IF supabase THEN {<<>>} ELSE {<<>>, Crowd})
    /\ remote = <<>>
    /\ user_goals = <<>>
    /\ saves = <<>>
    /\ shown = [page |-> "Home"]

Next ==
    \/ ContinueAsGuest
    \/ SignOut
    \/ SaveEntry
    \/ ImportCsv
    \/ SaveEntryWithUpload
    \/ ViewGoals
    \/ SaveTarget
    \/ ViewLeaderboard

Spec == Init /\ [][Next]_vars

\* user_goals is written and read by page_goals_and_alerts alone, and the
\* pages that read the entry stores write none of the variables, so each
\* group of claims is checked on the handlers that decide it, with the form
\* inputs those handlers read.

\* The handlers that write the entry stores, and those that set the user
\* they write into the record.
NextStores ==
    \/ ContinueAsGuest
    \/ SignOut
    \/ SaveEntryWith({""}, {today})
    \/ ImportCsv
    \/ SaveEntryWithUpload

SpecStores == Init /\ [][NextStores]_vars

\* The leaderboard and the handlers that write what it reads.  It reads the
\* local store alone, whose contents after a failed or skipped remote insert
\* are those of a run without a client.
NextLeaderboard ==
    \/ SaveEntryWith(AliasInputs, LeaderboardDates)
    \/ ImportCsv
    \/ ViewLeaderboard

InitLocalOnly == Init /\ ~supabase

SpecLeaderboard == InitLocalOnly /\ [][NextLeaderboard]_vars

\* The goal page and the handlers that decide what it reads: the session's
\* user and the entries of the local store (their alias is not read).
NextGoals ==
    \/ ContinueAsGuest
    \/ SignOut
    \/ SaveEntryWith({""}, GoalDates)
    \/ ViewGoals
    \/ SaveTarget

SpecGoals == Init /\ [][NextGoals]_vars

-----------------------------------------------------------------------------
(* Properties *)

Range(q) == {q[i] : i \in 1..Len(q)}

Records(q) == [i \in 1..Len(q) |-> q[i].record]

Stored == Range(local) \cup Range(remote)

\* C1: every entry held in the local or the remote store has
\* transport_emission = distance * factor(transport_mode), with factor 0 for
\* a mode outside the table, electricity_emission = electricity *
\* ELECTRICITY_FACTOR, lpg_emission = lpg * LPG_FACTOR, and total_emission
\* the sum of the three.
C1_EmissionsAddUp ==
    \A e \in Stored :
        /\ e.transport_mode \in DOMAIN EMISSION_FACTORS =>
               e.transport_emission = e.distance * EMISSION_FACTORS[e.transport_mode]
        /\ e.transport_mode \notin DOMAIN EMISSION_FACTORS => e.transport_emission = 0
        /\ e.electricity_emission = e.electricity * ELECTRICITY_FACTOR
        /\ e.lpg_emission = e.lpg * LPG_FACTOR
        /\ e.total_emission =
               e.transport_emission + e.electricity_emission + e.lpg_emission

\* A manual save of 50 km by petrol car with 5 kWh and 1 kg of LPG and a CSV
\* row of 10 km by an unknown mode are both stored.
C1_Witness ==
    /\ \E e \in Stored :
           /\ e.transport_mode = "Car (Petrol)"
           /\ e.total_emission = 13500
           /\ e.lpg_emission = 3000
    /\ \E e \in Stored :
           /\ e.transport_mode \notin DOMAIN EMISSION_FACTORS
           /\ e.distance = 10
           /\ e.lpg_emission > 0

\* C2 (as claimed): the table user_goals holds at most one row per user_id,
\* the missing user_id included.
C2_OneGoalPerUser ==
    \A i, j \in 1..Len(user_goals) :
        user_goals[i].user_id = user_goals[j].user_id => i = j

\* C3: every save reported as a success put its entry in exactly one store:
\* in the local store, after the rows the run started on, when
\* insert_supabase returned False (no client, or the request failed), and
\* in the remote store when it returned True, which needs a client.
C3_ExactlyOneStore ==
    LET InLocal(v) == ~v.remote_ok
        InRemote(v) == v.remote_ok
    IN  /\ remote = Records(SelectSeq(saves, InRemote))
        /\ \E seed \in {<<>>, Crowd} :
               local = seed \o Records(SelectSeq(saves, InLocal))
        /\ \A v \in Range(saves) : v.remote_ok => supabase

\* One save went to the remote store and one fell back to the local store.
C3_Witness ==
    /\ supabase
    /\ Len(remote) = 1
    /\ Len(local) = 1
    /\ \E i, j \in 1..Len(saves) : saves[i].remote_ok /\ ~saves[j].remote_ok

\* C4 (as claimed): the leaderboard groups, before the cut, account for the
\* total_emission of every entry of the window, and an entry of the window
\* whose alias is null is counted in a group named "Anonymous".
C4_NullAliasIsAnonymous ==
    (shown.page = "Leaderboard" /\ ~shown.empty) =>
        /\ SumTotal(shown.agg) = SumTotal(shown.week)
        /\ (\E e \in Range(shown.week) : e.alias = None) =>
               \E g \in Range(shown.agg) : g.alias = "Anonymous"

\* C5 (as claimed): the entries the leaderboard ranks are exactly the stored
\* entries dated from today - 7 to today, both included.
C5_TrailingWindow ==
    (shown.page = "Leaderboard" /\ ~shown.empty) =>
        \A e \in Range(local) :
            e \in Range(shown.week) <=> (today - 7 <= e.date /\ e.date <= today)

\* The sum the leaderboard ranks alias a by.
GroupSum(a) ==
    LET Counted(e) == e.alias = a /\ e.date >= today - 7
    IN  SumTotal(SelectSeq(local, Counted))

RankedAliases ==
    {e.alias : e \in {x \in Range(local) : x.alias # None /\ x.date >= today - 7}}

\* C6: the leaderboard table has at most 10 rows, one row per alias, each
\* with the sum of that alias, in ascending order of the sums, and no alias
\* left out has a sum below that of a row shown; all aliases are shown when
\* there are at most 10.
C6_LeaderboardTable ==
    (shown.page = "Leaderboard" /\ ~shown.empty) =>
        LET t == shown.table
        IN  /\ Len(t) <= 10
            /\ Len(t) = IF Cardinality(RankedAliases) < 10
                        THEN Cardinality(RankedAliases) ELSE 10
            /\ \A i, j \in 1..Len(t) : t[i].alias = t[j].alias => i = j
            /\ \A i \in 1..Len(t) :
                   /\ t[i].alias \in RankedAliases
                   /\ t[i].total_emission = GroupSum(t[i].alias)
            /\ \A i, j \in 1..Len(t) :
                   i < j => t[i].total_emission <= t[j].total_emission
            /\ \A a \in RankedAliases :
                   (\A i \in 1..Len(t) : t[i].alias # a) =>
                       \A i \in 1..Len(t) : t[i].total_emission <= GroupSum(a)

\* Twelve aliases are ranked, ten are shown, and the new alias "amina" is
\* among them.
C6_Witness ==
    /\ shown.page = "Leaderboard"
    /\ ~shown.empty
    /\ Len(shown.agg) = 12
    /\ Len(shown.table) = 10
    /\ \E i \in 1..10 : shown.table[i].alias = "amina"

\* C7 (as claimed): the weekly total of the goal page is the sum of
\* total_emission over the entries of the session's user dated from the
\* Monday of this week to today.
C7_WeeklyTotalOfUser ==
    (shown.page = "Goals & Alerts" /\ shown.weekly # <<>>) =>
        LET Mine(e) == /\ e.user_id = user_id
                       /\ today - (today % 7) <= e.date
                       /\ e.date <= today
        IN  shown.weekly[1] = SumTotal(SelectSeq(local, Mine))

\* C8 (as claimed): for a signed-in user the goal page reports EXCEEDED iff
\* the weekly total is above the stored weekly target, or above 20 kg when
\* no target is stored.
C8_StoredTargetCompared ==
    (shown.page = "Goals & Alerts" /\ shown.status # "none" /\ user_id # None) =>
        LET stored == StoredTarget(user_id)
            target == IF stored # <<>> THEN stored[1] ELSE DEFAULT_TARGET
        IN  /\ shown.status = "EXCEEDED" <=> shown.weekly[1] > target
            /\ shown.status = "WITHIN_TARGET" <=> shown.weekly[1] <= target

\* C9: an import of a file without one of the required columns processes no
\* row and appends nothing.  Any other import reports the failing rows in
\* order, appends the entries of the other rows in order, the rows after a
\* failing row included, and reports as count the number of entries it
\* appended.
C9_ImportCsv ==
    [][(shown'.page = "Enter Data" /\ shown'.uploaded # <<>>) =>
        LET csv == shown'.uploaded[1]
            manual == Len(shown'.saved)
            added == SubSeq(saves', Len(saves) + manual + 1, Len(saves'))
            grown == (Len(local') + Len(remote')) - (Len(local) + Len(remote))
            Fails(i) == RowRaises(csv.rows[i])
            Passes(i) == ~RowRaises(csv.rows[i])
            rows == [i \in 1..Len(csv.rows) |-> i]
            passed == SelectSeq(rows, Passes)
        IN  IF ~(required \subseteq csv.columns)
            THEN /\ shown'.csv = "missing"
                 /\ shown'.count = 0
                 /\ shown'.failed = <<>>
                 /\ added = <<>>
                 /\ grown = manual
            ELSE /\ shown'.csv = "imported"
                 /\ shown'.failed = SelectSeq(rows, Fails)
                 /\ Records(added) =
                        [k \in 1..Len(passed) |->
                            RowRecord(csv.columns, csv.rows[passed[k]], shown'.alias)]
                 /\ shown'.count = Len(added)
                 /\ grown = manual + shown'.count]_vars

\* An import whose first row failed and whose second row was appended.
C9_Witness ==
    /\ shown.page = "Enter Data"
    /\ shown.csv = "imported"
    /\ shown.failed = <<1>>
    /\ shown.count = 1
    /\ shown.saved = <<>>
    /\ Len(saves) = 1

\* C10 (as claimed): every entry whose save was reported as a success is
\* among the rows the queries of the pages return for its user.
C10_ReadYourWrites ==
    \A v \in Range(saves) :
        v.record \in Range(fetch_all_local_for_user(v.record.user_id))
====
